---- MODULE Spec2Model ----
(***************************************************************************)
(* Model of src/support_analyzer.py: the SupportAnalyzer object (conn,     *)
(* metrics), the SQLite file it works on (schema, tickets table), the      *)
(* document written by export_for_powerbi and the run of main().           *)
(*                                                                         *)
(* Numbers.  Python floats that the program rounds to two decimals are     *)
(* kept as integers counting hundredths; a Python number is the record     *)
(* [t |-> "int" | "float", v |-> n] where n is the integer itself for an   *)
(* int and the number of hundredths for a float.                           *)
(* Optional values (SQL NULL, Python None) are <<>>; a present value x is  *)
(* <<x>>.                                                                  *)
(* Dates are day numbers counted from Monday 2024-01-01 (day 0).           *)
(***************************************************************************)
EXTENDS Integers, Sequences, FiniteSets, TLC

VARIABLES
    conn,         \* self.conn: "None", "open" or "closed"
    metrics,      \* self.metrics: {} or the last snapshot
    last,         \* the last call on the object: [op, args, err], err the
                  \* exception it raised ("none" when it returned)
    db,           \* the SQLite file: [schema, tickets, seq]
    rng,          \* the stream np.random yields after np.random.seed(42)
    file,         \* content of powerbi_support_data.json (<<>> when absent)
    pc,           \* position of main(); "api" while no run of main() is under
                  \* way and the object is driven call by call
    exc,          \* exception pending in main()'s try block ("none" if none)
    sql_reports,  \* main()'s local sql_reports (<<>> before it is assigned)
    stdout,       \* what main() has printed so far
    log,          \* analyzer calls completed by the current run of main()
    runs          \* number of runs of main() started

vars == <<conn, metrics, last, db, rng, file, pc, exc, sql_reports, stdout,
          log, runs>>

\* ------------------------------------------------------------------ bounds
MaxN == 3
MaxRuns == 2

\* ------------------------------------------------------- program constants
NTicketsMain == 200
WindowDays == 60
Sla24 == 24
TrendLimit == 8

\* --------------------------------------------------------- optional values
None == <<>>
Some(x) == <<x>>
IsPresent(o) == o # <<>>
Val(o) == o[1]

\* ----------------------------------------------------------------- numbers
IntVal(n) == [t |-> "int", v |-> n]
FloatVal(c) == [t |-> "float", v |-> c]
ZeroDivisionError == [t |-> "raise", v |-> 0]
Hundredths(x) == IF x.t = "int" THEN 100 * x.v ELSE x.v

\* nearest integer to num/den, ties to the even one (num >= 0, den > 0)
RoundHalfEven(num, den) ==
    LET q == num \div den
        r == num % den
    IN  IF 2 * r < den THEN q
        ELSE IF 2 * r > den THEN q + 1
        ELSE IF q % 2 = 0 THEN q ELSE q + 1

\* round(num / den * 100, 2) of the percentage
PyRoundPct(num, den) ==
    IF den = 0 THEN ZeroDivisionError
    ELSE FloatVal(RoundHalfEven(num * 10000, den))

\* round(sum / count, 2) of a Series.mean() (an empty mean is not a number)
PyRoundMean(sum, count) ==
    IF count = 0 THEN ZeroDivisionError
    ELSE FloatVal(RoundHalfEven(sum * 100, count))

\* ------------------------------------------------------------------- lists
categorias == <<"Hardware", "Software", "Red", "Acceso", "Email", "Impresora">>
prioridades == <<"Baja", "Media", "Alta", "Critica">>
canales == <<"Email", "Telefono", "Chat", "Portal", "Slack">>
agentes == <<"Agente1", "Agente2", "Agente3", "Agente4">>
estados == <<"Abierto", "En Progreso", "Resuelto", "Cerrado">>
estados_resueltos == <<"Resuelto", "Cerrado">>
estados_abiertos == <<"Abierto", "En Progreso">>

\* the sum of f(k) over the k of S, a set of positions within 1 .. n (the
\* range is halved at each step, so the evaluation stays shallow)
SumOver(n, S, f(_)) ==
    LET RECURSIVE go(_, _)
        go(lo, hi) ==
            IF lo > hi THEN 0
            ELSE IF lo = hi THEN (IF lo \in S THEN f(lo) ELSE 0)
            ELSE go(lo, (lo + hi) \div 2) + go(((lo + hi) \div 2) + 1, hi)
    IN  go(1, n)

\* ------------------------------------------------------------------ dates
\* strftime('%Y', d) for the day numbers 0 .. 1460 (2024 .. 2027)
Year(d) == IF d < 366 THEN 2024 ELSE 2025 + ((d - 366) \div 365)
\* day of the year, 0-based
YDay(d) == IF d < 366 THEN d ELSE (d - 366) % 365
\* day of the week, 0 = Monday
WDay(d) == d % 7
\* strftime('%Y-%W', d): the year and the week of the year, 00 .. 53, where
\* week 01 starts on the year's first Monday.  The text is four digits,
\* a dash and two digits, so comparing two keys as text compares the pairs.
WeekKey(d) == <<Year(d), (YDay(d) + 7 - WDay(d)) \div 7>>
KeyLess(a, b) == a[1] < b[1] \/ (a[1] = b[1] /\ a[2] < b[2])

\* --------------------------------------------------------------- the store
\* columns of the two tables
TicketColumns ==
    <<"id", "ticket_id", "fecha_creacion", "fecha_resolucion", "categoria",
      "prioridad", "estado", "agente_asignado", "tiempo_resolucion_horas",
      "canal", "satisfaccion_cliente", "descripcion">>
MetricasColumns ==
    <<"id", "fecha", "tickets_abiertos", "tickets_resueltos",
      "tiempo_promedio_resolucion", "satisfaccion_promedio",
      "tickets_por_categoria">>

\* a database file that does not exist yet (sqlite3.connect creates it empty)
EmptyDb == [schema |-> <<>>, tickets |-> <<>>, seq |-> 0]

\* result of a statement or a method: the database after it and the
\* exception it raised ("none" when it returned)
Ok(d) == [db |-> d, err |-> "none"]
Raise(d, e) == [db |-> d, err |-> e]

\* self.conn.cursor() on the analyzer's connection
CursorError ==
    IF conn = "None" THEN "AttributeError"
    ELSE IF conn = "closed" THEN "ProgrammingError"
    ELSE "none"

\* CREATE TABLE name (...) without IF NOT EXISTS
CreateTable(d, name, cols) ==
    IF name \in DOMAIN d.schema THEN Raise(d, "OperationalError")
    ELSE Ok([d EXCEPT !.schema = (name :> cols) @@ d.schema])

\* CREATE TABLE IF NOT EXISTS name (...)
CreateTableIfNotExists(d, name, cols) ==
    IF name \in DOMAIN d.schema THEN Ok(d)
    ELSE Ok([d EXCEPT !.schema = (name :> cols) @@ d.schema])

\* create_tables: both statements, then commit
create_tables(d) ==
    IF CursorError # "none" THEN Raise(d, CursorError)
    ELSE LET a == CreateTableIfNotExists(d, "tickets", TicketColumns)
         IN  IF a.err # "none" THEN Raise(d, a.err)
             ELSE LET b == CreateTableIfNotExists(a.db, "metricas_diarias",
                                                  MetricasColumns)
                  IN  IF b.err # "none" THEN Raise(d, b.err) ELSE b

\* ----------------------------------------------------------- the generator
\* One iteration of the loop consumes these draws of np.random, in order:
\*   dia       np.random.randint(0, 60)
\*   tiempo    np.random.exponential(24), in hours
\*   resuelto  np.random.random() > 0.2
\*   pick      index drawn by np.random.choice over the two states
\*   sat       np.random.randint(1, 6), drawn only for a resolved ticket
\*   categoria, prioridad, agente, canal   indexes drawn by np.random.choice
Horas == {24, 50}
Sats == {4, 5}
Draws ==
    [tiempo : Horas, resuelto : BOOLEAN, pick : {1, 2}, sat : Sats,
     categoria : {1, 2}, prioridad : {2}, agente : {1}, canal : {1}]
DrawsA == {d \in Draws : d.categoria = 1}
DrawsB == {d \in Draws : d.pick = 2 /\ d.sat = 4 /\ d.categoria = 2}

\* np.random.seed(42) at the start of every call makes the stream the same
\* in every call; the stream itself is left open: two alternating
\* iterations of draws, and the day offsets of an arithmetic progression.
DrawAt(i) == rng.draws[(i % Len(rng.draws)) + 1]
DiaAt(i) == (rng.dia0 + rng.step * i) % WindowDays

\* the state drawn from the whole list, whatever the resolution
estado_cualquiera(d) == estados[d.pick]

\* the state of a ticket: a resolved one out of 'Resuelto' and 'Cerrado',
\* an open one out of 'Abierto' and 'En Progreso'
estado_de(d) ==
    IF d.resuelto THEN estados_resueltos[d.pick] ELSE estados_abiertos[d.pick]

\* the values bound to the INSERT of iteration i; now = datetime.now()
GenTicket(i, now) ==
    LET d == DrawAt(i)
        base_date == now.day - WindowDays
        fecha_creacion == base_date + DiaAt(i)
        tiempo_resolucion == d.tiempo
        fecha_resolucion ==
            IF d.resuelto
            THEN Some(fecha_creacion + ((now.hour + tiempo_resolucion) \div 24))
            ELSE None
        estado == estado_de(d)
        satisfaccion == IF IsPresent(fecha_resolucion) THEN Some(d.sat) ELSE None
    IN  [ticket_id |-> i + 1,
         fecha_creacion |-> fecha_creacion,
         fecha_resolucion |-> fecha_resolucion,
         categoria |-> categorias[d.categoria],
         prioridad |-> prioridades[d.prioridad],
         estado |-> estado,
         agente_asignado |-> agentes[d.agente],
         tiempo_resolucion_horas |->
             IF IsPresent(fecha_resolucion) THEN Some(tiempo_resolucion) ELSE None,
         canal |-> canales[d.canal],
         satisfaccion_cliente |-> satisfaccion,
         descripcion |-> i + 1]

HasTicketId(d, id) == \E k \in 1..Len(d.tickets) : d.tickets[k].ticket_id = id

\* the row as stored: the AUTOINCREMENT id is one more than the largest
\* one ever given
NewRow(d, r) == [id |-> d.seq + 1] @@ r

\* INSERT OR REPLACE: a row with the same ticket_id is deleted first
InsertOrReplace(d, r) ==
    Ok([d EXCEPT
          !.tickets = Append(SelectSeq(d.tickets,
                                       LAMBDA x : x.ticket_id # r.ticket_id),
                             NewRow(d, r)),
          !.seq = d.seq + 1])

\* INSERT OR IGNORE: the UNIQUE constraint on ticket_id skips the row
InsertOrIgnore(d, r) ==
    IF HasTicketId(d, r.ticket_id) THEN Ok(d)
    ELSE Ok([d EXCEPT !.tickets = Append(d.tickets, NewRow(d, r)),
                      !.seq = d.seq + 1])

\* the statement of one iteration
ExecuteInsert(d, r) ==
    IF "tickets" \notin DOMAIN d.schema THEN Raise(d, "OperationalError")
    ELSE InsertOrIgnore(d, r)

\* for i in range(n_tickets): ... cursor.execute(INSERT ...), here the
\* iterations i .. n-1 in order, stopping at the first that raises (the
\* first half of them, then the second, so the evaluation stays shallow)
RECURSIVE InsertLoop(_, _, _, _)
InsertLoop(d, i, n, now) ==
    IF i >= n THEN Ok(d)
    ELSE IF n = i + 1 THEN ExecuteInsert(d, GenTicket(i, now))
    ELSE LET a == InsertLoop(d, i, (i + n) \div 2, now)
         IN  IF a.err # "none" THEN a
             ELSE InsertLoop(a.db, (i + n) \div 2, n, now)

\* insert_sample_tickets: the loop, then commit; an exception leaves the
\* transaction uncommitted, and nothing of it is in the file
insert_sample_tickets(d, n, now) ==
    IF CursorError # "none" THEN Raise(d, CursorError)
    ELSE LET a == InsertLoop(d, 0, n, now)
         IN  IF a.err # "none" THEN Raise(d, a.err) ELSE a

\* ------------------------------------------------------- calculate_metrics
\* pd.read_sql_query on the analyzer's connection
ReadError(d) ==
    IF conn = "None" THEN "AttributeError"
    ELSE IF conn = "closed" THEN "ProgrammingError"
    ELSE IF "tickets" \notin DOMAIN d.schema THEN "DatabaseError"
    ELSE "none"

Rows(df) == 1..Len(df)
total_tickets(df) == Len(df)

\* only 'Resuelto' counts as resolved
tickets_resueltos_sin_cerrado(df) ==
    Cardinality({k \in Rows(df) : df[k].estado \in {"Resuelto"}})

tickets_resueltos(df) ==
    Cardinality({k \in Rows(df) : df[k].estado \in {"Resuelto", "Cerrado"}})

tickets_abiertos(df) == total_tickets(df) - tickets_resueltos(df)

\* the percentage without the guard on an empty table
tasa_resolucion_sin_guarda(df) ==
    PyRoundPct(tickets_resueltos(df), total_tickets(df))

tasa_resolucion(df) ==
    IF total_tickets(df) > 0
    THEN PyRoundPct(tickets_resueltos(df), total_tickets(df))
    ELSE IntVal(0)

\* df[df[col].notna()][col], as the set of row positions
NotNa(df, col) == {k \in Rows(df) : IsPresent(df[k][col])}
SumCol(df, col, K) == SumOver(Len(df), K, LAMBDA k : Val(df[k][col]))

promedio(df, col) ==
    LET K == NotNa(df, col)
    IN  IF Cardinality(K) > 0
        THEN PyRoundMean(SumCol(df, col, K), Cardinality(K))
        ELSE IntVal(0)

\* df[col].value_counts().to_dict()
value_counts(df, col) ==
    [v \in {df[k][col] : k \in Rows(df)} |->
        IntVal(Cardinality({k \in Rows(df) : df[k][col] = v}))]

\* the ratio turned upside down
sla_24h_invertido(df) ==
    LET K == NotNa(df, "tiempo_resolucion_horas")
        en_sla == {k \in K : Val(df[k].tiempo_resolucion_horas) <= Sla24}
    IN  IF Cardinality(K) > 0
        THEN PyRoundPct(Cardinality(K), Cardinality(en_sla))
        ELSE IntVal(0)

sla_24h(df) ==
    LET K == NotNa(df, "tiempo_resolucion_horas")
        en_sla == {k \in K : Val(df[k].tiempo_resolucion_horas) <= Sla24}
    IN  IF Cardinality(K) > 0
        THEN PyRoundPct(Cardinality(en_sla), Cardinality(K))
        ELSE IntVal(0)

\* the snapshot assigned to self.metrics
Snapshot(df) ==
    [total_tickets |-> IntVal(total_tickets(df)),
     tickets_resueltos |-> IntVal(tickets_resueltos(df)),
     tickets_abiertos |-> IntVal(tickets_abiertos(df)),
     tasa_resolucion |-> tasa_resolucion(df),
     tiempo_promedio_resolucion_horas |-> promedio(df, "tiempo_resolucion_horas"),
     satisfaccion_promedio |-> promedio(df, "satisfaccion_cliente"),
     sla_24h |-> sla_24h(df),
     tickets_por_categoria |-> value_counts(df, "categoria"),
     tickets_por_prioridad |-> value_counts(df, "prioridad"),
     tickets_por_canal |-> value_counts(df, "canal")]

ScalarFields ==
    {"total_tickets", "tickets_resueltos", "tickets_abiertos", "tasa_resolucion",
     "tiempo_promedio_resolucion_horas", "satisfaccion_promedio", "sla_24h"}
GroupFields ==
    {"tickets_por_categoria", "tickets_por_prioridad", "tickets_por_canal"}

\* calculate_metrics: [metrics, err]; a division by zero raises before
\* self.metrics is assigned
calculate_metrics(d) ==
    IF ReadError(d) # "none" THEN [metrics |-> metrics, err |-> ReadError(d)]
    ELSE LET m == Snapshot(d.tickets)
         IN  IF \E f \in ScalarFields : m[f] = ZeroDivisionError
             THEN [metrics |-> metrics, err |-> "ZeroDivisionError"]
             ELSE [metrics |-> m, err |-> "none"]

\* ------------------------------------------------------ export_for_powerbi
\* Text is a sequence of one-character strings.
Digit(n) == <<"0", "1", "2", "3", "4", "5", "6", "7", "8", "9">>[n + 1]
DigitValue(ch) == CHOOSE n \in 0..9 : Digit(n) = ch

RECURSIVE DecimalText(_)
DecimalText(n) ==
    IF n < 10 THEN <<Digit(n)>>
    ELSE Append(DecimalText(n \div 10), Digit(n % 10))

RECURSIVE TextValue(_)
TextValue(txt) ==
    IF Len(txt) = 0 THEN 0
    ELSE 10 * TextValue(SubSeq(txt, 1, Len(txt) - 1)) + DigitValue(txt[Len(txt)])

\* a float written with one decimal
FloatRepr1(c) ==
    DecimalText(c \div 100) \o <<".", Digit((c % 100) \div 10)>>

\* float.__repr__ of a float with at most two decimals: the shortest text
\* that reads back as the same float, with at least one decimal
FloatRepr(c) ==
    DecimalText(c \div 100) \o <<".">> \o
    (IF c % 10 = 0 THEN <<Digit((c % 100) \div 10)>>
     ELSE <<Digit((c % 100) \div 10), Digit(c % 10)>>)

\* str() of a Python number
Str(x) == IF x.t = "int" THEN DecimalText(x.v) ELSE FloatRepr(x.v)

\* format(x, '.2f'): two decimals, always
Fixed2(x) ==
    LET c == Hundredths(x)
    IN  DecimalText(c \div 100) \o <<".", Digit((c % 100) \div 10), Digit(c % 10)>>

\* json.dump of a Python number: int.__repr__ or float.__repr__
JsonNumber(x) == Str(x)

\* json.load of a number: an int without a point, a float with one
JsonParseNumber(txt) ==
    IF \E k \in 1..Len(txt) : txt[k] = "."
    THEN LET p == CHOOSE k \in 1..Len(txt) : txt[k] = "."
             whole == TextValue(SubSeq(txt, 1, p - 1))
             frac == SubSeq(txt, p + 1, Len(txt))
         IN  FloatVal(100 * whole
                      + (IF Len(frac) = 1 THEN 10 * TextValue(frac)
                         ELSE TextValue(SubSeq(frac, 1, 2))))
    ELSE IntVal(TextValue(txt))

\* json.dump of self.metrics: {} or the snapshot, the keys as they are
JsonMetrics(m) ==
    [f \in DOMAIN m |->
        IF f \in GroupFields THEN [k \in DOMAIN m[f] |-> JsonNumber(m[f][k])]
        ELSE JsonNumber(m[f])]

\* json.load of the metrics object
JsonParseMetrics(j) ==
    [f \in DOMAIN j |->
        IF f \in GroupFields THEN [k \in DOMAIN j[f] |-> JsonParseNumber(j[f][k])]
        ELSE JsonParseNumber(j[f])]

\* Python's == on two numbers, and on two metrics dictionaries
PyEq(a, b) == Hundredths(a) = Hundredths(b)
DictEq(a, b) ==
    /\ DOMAIN a = DOMAIN b
    /\ \A f \in DOMAIN a :
         IF f \in GroupFields
         THEN /\ DOMAIN a[f] = DOMAIN b[f]
              /\ \A k \in DOMAIN a[f] : PyEq(a[f][k], b[f][k])
         ELSE PyEq(a[f], b[f])

\* One cell of df.to_dict('records') as json.dump writes it.  A column
\* with a NULL in some row is read as float64, the NULL as NaN; a column
\* with a NULL in every row is read as object, the NULL as None.
JsonCell(df, col, k, isInt) ==
    LET x == df[k][col]
        someNull == \E j \in Rows(df) : ~IsPresent(df[j][col])
        allNull == \A j \in Rows(df) : ~IsPresent(df[j][col])
    IN  IF allNull THEN <<"n", "u", "l", "l">>
        ELSE IF ~IsPresent(x) THEN <<"N", "a", "N">>
        ELSE IF isInt /\ ~someNull THEN DecimalText(Val(x))
        ELSE FloatRepr(100 * Val(x))

\* a date column holds text, 'YYYY-MM-DD', written here as the day number
JsonDate(o) == IF IsPresent(o) THEN DecimalText(Val(o)) ELSE <<"n", "u", "l", "l">>

JsonRecord(df, k) ==
    [id |-> DecimalText(df[k].id),
     ticket_id |-> DecimalText(df[k].ticket_id),
     fecha_creacion |-> JsonDate(Some(df[k].fecha_creacion)),
     fecha_resolucion |-> JsonDate(df[k].fecha_resolucion),
     categoria |-> df[k].categoria,
     prioridad |-> df[k].prioridad,
     estado |-> df[k].estado,
     agente_asignado |-> df[k].agente_asignado,
     tiempo_resolucion_horas |-> JsonCell(df, "tiempo_resolucion_horas", k, FALSE),
     canal |-> df[k].canal,
     satisfaccion_cliente |-> JsonCell(df, "satisfaccion_cliente", k, TRUE),
     descripcion |-> DecimalText(df[k].descripcion)]

\* df['fecha_creacion'].min() and .max(): NaN on an empty frame
FechaMin(df) ==
    IF Len(df) = 0 THEN <<"N", "a", "N">>
    ELSE JsonDate(Some(CHOOSE x \in {df[k].fecha_creacion : k \in Rows(df)} :
                         \A k \in Rows(df) : x <= df[k].fecha_creacion))
FechaMax(df) ==
    IF Len(df) = 0 THEN <<"N", "a", "N">>
    ELSE JsonDate(Some(CHOOSE x \in {df[k].fecha_creacion : k \in Rows(df)} :
                         \A k \in Rows(df) : x >= df[k].fecha_creacion))

\* the document json.dump writes; now = datetime.now()
PowerBiData(d, now) ==
    LET df == d.tickets
    IN  [timestamp |-> DecimalText(now.day),
         metrics |-> JsonMetrics(metrics),
         tickets |-> [k \in Rows(df) |-> JsonRecord(df, k)],
         summary |-> [total_tickets |-> DecimalText(Len(df)),
                      date_range |-> [start |-> FechaMin(df),
                                      end |-> FechaMax(df)]]]

\* export_for_powerbi: [file, err]
export_for_powerbi(d, now) ==
    IF ReadError(d) # "none" THEN [file |-> file, err |-> ReadError(d)]
    ELSE [file |-> Some(PowerBiData(d, now)), err |-> "none"]

\* ------------------------------------------------------ generate_sql_report
\* AVG(col) over the rows K: NULL when no row has a value, else the mean
\* of the values present (kept to the hundredth, all that main() prints)
Avg(df, col, K) ==
    LET P == {k \in K : IsPresent(df[k][col])}
    IN  IF P = {} THEN None
        ELSE Some(FloatVal(RoundHalfEven(100 * SumCol(df, col, P), Cardinality(P))))

\* query 1, GROUP BY categoria, estado (the rows, their order left out)
por_categoria(df) ==
    {[categoria |-> g[1], estado |-> g[2],
      cantidad |-> Cardinality({k \in Rows(df) :
                                  <<df[k].categoria, df[k].estado>> = g}),
      tiempo_promedio |->
          Avg(df, "tiempo_resolucion_horas",
              {k \in Rows(df) : <<df[k].categoria, df[k].estado>> = g})] :
     g \in {<<df[k].categoria, df[k].estado>> : k \in Rows(df)}}

\* query 2, WHERE estado IN ('Resuelto', 'Cerrado') GROUP BY agente_asignado
\* (the rows, their order left out)
por_agente(df) ==
    LET W == {k \in Rows(df) : df[k].estado \in {"Resuelto", "Cerrado"}}
    IN  {[agente |-> a,
          total_tickets |-> Cardinality({k \in W : df[k].agente_asignado = a}),
          tiempo_promedio |->
              Avg(df, "tiempo_resolucion_horas",
                  {k \in W : df[k].agente_asignado = a}),
          satisfaccion_promedio |->
              Avg(df, "satisfaccion_cliente",
                  {k \in W : df[k].agente_asignado = a})] :
         a \in {df[k].agente_asignado : k \in W}}

\* query 3 before ORDER BY and LIMIT: one row per strftime('%Y-%W',
\* fecha_creacion), with COUNT(*) and the count of resolved or closed rows
GroupBySemana(df) ==
    {[semana |-> w,
      tickets_creados |->
          Cardinality({k \in Rows(df) : WeekKey(df[k].fecha_creacion) = w}),
      tickets_resueltos |->
          Cardinality({k \in Rows(df) :
                         /\ WeekKey(df[k].fecha_creacion) = w
                         /\ df[k].estado \in {"Resuelto", "Cerrado"}})] :
     w \in {WeekKey(df[k].fecha_creacion) : k \in Rows(df)}}

\* ORDER BY semana DESC
RECURSIVE OrderBySemanaDesc(_)
OrderBySemanaDesc(G) ==
    IF G = {} THEN <<>>
    ELSE LET top == CHOOSE g \in G :
                      \A h \in G : h = g \/ KeyLess(h.semana, g.semana)
         IN  <<top>> \o OrderBySemanaDesc(G \ {top})

\* LIMIT n
Limit(rows, n) == SubSeq(rows, 1, IF Len(rows) < n THEN Len(rows) ELSE n)

\* query 3 without its LIMIT
tendencia_semanal_sin_limite(df) == OrderBySemanaDesc(GroupBySemana(df))

\* query 3
tendencia_semanal(df) == Limit(OrderBySemanaDesc(GroupBySemana(df)), TrendLimit)

\* generate_sql_report: [report, err]
generate_sql_report(d) ==
    IF CursorError # "none" THEN [report |-> <<>>, err |-> CursorError]
    ELSE IF "tickets" \notin DOMAIN d.schema
    THEN [report |-> <<>>, err |-> "OperationalError"]
    ELSE [report |-> [por_categoria |-> por_categoria(d.tickets),
                      por_agente |-> por_agente(d.tickets),
                      tendencia_semanal |-> tendencia_semanal(d.tickets)],
          err |-> "none"]

\* ------------------------------------------------------ get_summary_report
\* the text returned, by its parts
get_summary_report ==
    IF DOMAIN metrics = {} THEN [kind |-> "No hay metricas calculadas"]
    ELSE [kind |-> "reporte",
          total_tickets |-> Str(metrics.total_tickets),
          tickets_resueltos |-> Str(metrics.tickets_resueltos),
          tickets_abiertos |-> Str(metrics.tickets_abiertos),
          tasa_resolucion |-> Str(metrics.tasa_resolucion),
          tiempo_promedio |-> Fixed2(metrics.tiempo_promedio_resolucion_horas),
          sla_24h |-> Fixed2(metrics.sla_24h),
          satisfaccion_promedio |-> Fixed2(metrics.satisfaccion_promedio),
          por_categoria |-> [c \in DOMAIN metrics.tickets_por_categoria |->
                                Str(metrics.tickets_por_categoria[c])],
          por_canal |-> [c \in DOMAIN metrics.tickets_por_canal |->
                            Str(metrics.tickets_por_canal[c])]]

\* ------------------------------------------------- the object, call by call
EmptyDict == [k \in {} |-> 0]
Called(op, args, err) == [op |-> op, args |-> args, err |-> err]

ApiNows == {[day |-> 750, hour |-> 9], [day |-> 1035, hour |-> 20]}
ApiRngs ==
    {[draws |-> <<a, b>>, dia0 |-> 3, step |-> 7] : a \in DrawsA, b \in DrawsB}

ExportNows == {[day |-> 750, hour |-> 9]}
DrawsE == {d \in DrawsA : d.sat = 4 /\ d.pick = 1}
ExportRngs ==
    {[draws |-> <<a, b>>, dia0 |-> 3, step |-> 7] : a \in DrawsE, b \in DrawsB}

\* a new SupportAnalyzer() beside a database file that does not exist
InitWith(rngs) ==
    /\ conn = "None"
    /\ metrics = EmptyDict
    /\ last = Called("none", <<>>, "none")
    /\ db = EmptyDb
    /\ rng \in rngs
    /\ file = <<>>
    /\ pc = "api"
    /\ exc = "none"
    /\ sql_reports = <<>>
    /\ stdout = <<>>
    /\ log = <<>>
    /\ runs = 0

Init == InitWith(ApiRngs)

MainVars == <<pc, exc, sql_reports, stdout, log, runs>>

\* analyzer.connect_db()
ConnectDb ==
    /\ pc = "api"
    /\ conn' = "open"
    /\ last' = Called("connect_db", <<>>, "none")
    /\ UNCHANGED <<metrics, db, rng, file, MainVars>>

\* analyzer.create_tables()
CreateTables ==
    /\ pc = "api"
    /\ LET r == create_tables(db)
       IN  db' = r.db /\ last' = Called("create_tables", <<>>, r.err)
    /\ UNCHANGED <<conn, metrics, rng, file, MainVars>>

\* analyzer.insert_sample_tickets(n), called when the clock reads one of nows
InsertSampleTickets(nows) ==
    /\ pc = "api"
    /\ \E n \in 0..MaxN, now \in nows :
         LET r == insert_sample_tickets(db, n, now)
         IN  db' = r.db /\ last' = Called("insert_sample_tickets", <<n>>, r.err)
    /\ UNCHANGED <<conn, metrics, rng, file, MainVars>>

\* analyzer.calculate_metrics()
CalculateMetrics ==
    /\ pc = "api"
    /\ LET r == calculate_metrics(db)
       IN  metrics' = r.metrics /\ last' = Called("calculate_metrics", <<>>, r.err)
    /\ UNCHANGED <<conn, db, rng, file, MainVars>>

\* analyzer.export_for_powerbi(), called when the clock reads one of nows
ExportForPowerBi(nows) ==
    /\ pc = "api"
    /\ \E now \in nows :
         LET r == export_for_powerbi(db, now)
         IN  file' = r.file /\ last' = Called("export_for_powerbi", <<>>, r.err)
    /\ UNCHANGED <<conn, metrics, db, rng, MainVars>>

\* analyzer.close()
Close ==
    /\ pc = "api"
    /\ conn' = IF conn # "None" THEN "closed" ELSE conn
    /\ last' = Called("close", <<>>, "none")
    /\ UNCHANGED <<metrics, db, rng, file, MainVars>>

\* the store and the metrics, over every stream of ApiRngs
Next ==
    \/ ConnectDb
    \/ CreateTables
    \/ InsertSampleTickets(ApiNows)
    \/ CalculateMetrics
    \/ Close

Spec == Init /\ [][Next]_vars

\* the same with the export, over the streams of ExportRngs
InitExport == InitWith(ExportRngs)

NextExport ==
    \/ ConnectDb
    \/ CreateTables
    \/ InsertSampleTickets(ExportNows)
    \/ CalculateMetrics
    \/ ExportForPowerBi(ExportNows)
    \/ Close

SpecExport == InitExport /\ [][NextExport]_vars

\* ------------------------------------------------------------------ main()
MainNows == {[day |-> 750, hour |-> 9], [day |-> 1035, hour |-> 20]}
DrawsM == {d \in DrawsA : d.pick = 1 /\ d.sat = 5}
DrawsN == {d \in DrawsB : d.tiempo = 24}
MainRngs ==
    {[draws |-> <<a, b>>, dia0 |-> x[1], step |-> x[2]] :
        a \in DrawsM, b \in DrawsN, x \in {<<3, 7>>, <<0, 13>>}}

\* the calls of the try block, in reverse of the code's order for the
\* summary and the metrics
MainStepsSummaryFirst ==
    <<"connect_db", "create_tables", "insert_sample_tickets",
      "get_summary_report", "generate_sql_report", "calculate_metrics",
      "export_for_powerbi", "print_agentes">>

\* the statements of the try block, in order
MainSteps ==
    <<"connect_db", "create_tables", "insert_sample_tickets",
      "calculate_metrics", "generate_sql_report", "get_summary_report",
      "export_for_powerbi", "print_agentes">>

\* where control goes when the statement at step returns
StepAfter(step) ==
    LET k == CHOOSE j \in 1..Len(MainSteps) : MainSteps[j] = step
    IN  IF k = Len(MainSteps) THEN "finally" ELSE MainSteps[k + 1]

\* a try block without its finally clause: the exception leaves main()
ExceptionTargetNoFinally == "raised"

\* where control goes when a statement of the try block raises
ExceptionTarget == "finally"

\* before the first run of main(): no database file, no export
InitMain == InitWith(MainRngs)

\* the statement at pc raises e: nothing but the exception is left of it
Fail(op, args, e) ==
    /\ exc' = e
    /\ pc' = ExceptionTarget
    /\ last' = Called(op, args, e)
    /\ UNCHANGED <<conn, metrics, db, rng, file, sql_reports, stdout, log, runs>>

\* the statement at pc returns
Done(op, args) ==
    /\ pc' = StepAfter(op)
    /\ last' = Called(op, args, "none")
    /\ log' = Append(log, [op |-> op, args |-> args])
    /\ UNCHANGED <<exc, rng, runs>>

\* python support_analyzer.py: analyzer = SupportAnalyzer()
MainStart ==
    /\ pc \in {"api", "done", "raised"}
    /\ runs < MaxRuns
    /\ runs' = runs + 1
    /\ conn' = "None"
    /\ metrics' = EmptyDict
    /\ last' = Called("none", <<>>, "none")
    /\ exc' = "none"
    /\ sql_reports' = <<>>
    /\ stdout' = <<>>
    /\ log' = <<>>
    /\ pc' = MainSteps[1]
    /\ UNCHANGED <<db, rng, file>>

\* analyzer.connect_db(): sqlite3.connect may raise, and connect_db
\* raises it again
MainConnectDb ==
    /\ pc = "connect_db"
    /\ \/ Fail("connect_db", <<>>, "StorageError")
       \/ /\ Done("connect_db", <<>>)
          /\ conn' = "open"
          /\ UNCHANGED <<metrics, db, file, sql_reports, stdout>>

\* analyzer.create_tables()
MainCreateTables ==
    /\ pc = "create_tables"
    /\ LET r == create_tables(db)
       IN  \/ Fail("create_tables", <<>>, "StorageError")
           \/ /\ r.err # "none"
              /\ Fail("create_tables", <<>>, r.err)
           \/ /\ r.err = "none"
              /\ Done("create_tables", <<>>)
              /\ db' = r.db
              /\ UNCHANGED <<conn, metrics, file, sql_reports, stdout>>

\* analyzer.insert_sample_tickets(n_tickets=200)
MainInsertSampleTickets ==
    /\ pc = "insert_sample_tickets"
    /\ \E now \in MainNows :
         LET r == insert_sample_tickets(db, NTicketsMain, now)
         IN  \/ Fail("insert_sample_tickets", <<NTicketsMain>>, "StorageError")
             \/ /\ r.err # "none"
                /\ Fail("insert_sample_tickets", <<NTicketsMain>>, r.err)
             \/ /\ r.err = "none"
                /\ Done("insert_sample_tickets", <<NTicketsMain>>)
                /\ db' = r.db
                /\ UNCHANGED <<conn, metrics, file, sql_reports, stdout>>

\* analyzer.calculate_metrics()
MainCalculateMetrics ==
    /\ pc = "calculate_metrics"
    /\ LET r == calculate_metrics(db)
       IN  \/ Fail("calculate_metrics", <<>>, "StorageError")
           \/ /\ r.err # "none"
              /\ Fail("calculate_metrics", <<>>, r.err)
           \/ /\ r.err = "none"
              /\ Done("calculate_metrics", <<>>)
              /\ metrics' = r.metrics
              /\ UNCHANGED <<conn, db, file, sql_reports, stdout>>

\* sql_reports = analyzer.generate_sql_report()
MainGenerateSqlReport ==
    /\ pc = "generate_sql_report"
    /\ LET r == generate_sql_report(db)
       IN  \/ Fail("generate_sql_report", <<>>, "StorageError")
           \/ /\ r.err # "none"
              /\ Fail("generate_sql_report", <<>>, r.err)
           \/ /\ r.err = "none"
              /\ Done("generate_sql_report", <<>>)
              /\ sql_reports' = r.report
              /\ UNCHANGED <<conn, metrics, db, file, stdout>>

\* print(analyzer.get_summary_report())
MainGetSummaryReport ==
    /\ pc = "get_summary_report"
    /\ \/ Fail("get_summary_report", <<>>, "IOError")
       \/ /\ Done("get_summary_report", <<>>)
          /\ stdout' = Append(stdout, get_summary_report)
          /\ UNCHANGED <<conn, metrics, db, file, sql_reports>>

\* analyzer.export_for_powerbi()
MainExportForPowerBi ==
    /\ pc = "export_for_powerbi"
    /\ \E now \in MainNows :
         LET r == export_for_powerbi(db, now)
         IN  \/ Fail("export_for_powerbi", <<>>, "IOError")
             \/ /\ r.err # "none"
                /\ Fail("export_for_powerbi", <<>>, r.err)
             \/ /\ r.err = "none"
                /\ Done("export_for_powerbi", <<>>)
                /\ file' = r.file
                /\ UNCHANGED <<conn, metrics, db, sql_reports, stdout>>

\* the loop printing sql_reports['por_agente']: format(None, '.2f') raises
MainPrintAgentes ==
    /\ pc = "print_agentes"
    /\ LET bad == \E a \in sql_reports.por_agente :
                     ~IsPresent(a.tiempo_promedio)
                     \/ ~IsPresent(a.satisfaccion_promedio)
       IN  \/ Fail("print_agentes", <<>>, "IOError")
           \/ /\ bad
              /\ Fail("print_agentes", <<>>, "TypeError")
           \/ /\ ~bad
              /\ Done("print_agentes", <<>>)
              /\ stdout' = Append(stdout,
                     {[agente |-> a.agente,
                       total |-> DecimalText(a.total_tickets),
                       tiempo |-> Fixed2(Val(a.tiempo_promedio)),
                       satisfaccion |-> Fixed2(Val(a.satisfaccion_promedio))] :
                      a \in sql_reports.por_agente})
              /\ UNCHANGED <<conn, metrics, db, file, sql_reports>>

\* finally: analyzer.close(); then the pending exception, if any, leaves
\* main()
MainFinally ==
    /\ pc = "finally"
    /\ conn' = IF conn # "None" THEN "closed" ELSE conn
    /\ pc' = IF exc = "none" THEN "done" ELSE "raised"
    /\ last' = Called("close", <<>>, "none")
    /\ UNCHANGED <<metrics, db, rng, file, exc, sql_reports, stdout, log, runs>>

NextMain ==
    \/ MainStart
    \/ MainConnectDb
    \/ MainCreateTables
    \/ MainInsertSampleTickets
    \/ MainCalculateMetrics
    \/ MainGenerateSqlReport
    \/ MainGetSummaryReport
    \/ MainExportForPowerBi
    \/ MainPrintAgentes
    \/ MainFinally

SpecMain == InitMain /\ [][NextMain]_vars

\* ================================================================== claims
Abs(x) == IF x < 0 THEN 0 - x ELSE x
Max(a, b) == IF a >= b THEN a ELSE b
Terminal(r) == r.estado \in {"Resuelto", "Cerrado"}
TableExists == "tickets" \in DOMAIN db.schema
Returned(op) == last.op = op /\ last.err = "none"

\* C1: every stored ticket has fecha_resolucion present iff
\* tiempo_resolucion_horas is present iff satisfaccion_cliente is present
\* iff its estado is 'Resuelto' or 'Cerrado'.
C1_ResolutionFieldsJointlyPresent ==
    \A k \in 1..Len(db.tickets) :
        LET r == db.tickets[k]
        IN  /\ IsPresent(r.fecha_resolucion) <=> IsPresent(r.tiempo_resolucion_horas)
            /\ IsPresent(r.fecha_resolucion) <=> IsPresent(r.satisfaccion_cliente)
            /\ IsPresent(r.fecha_resolucion) <=> Terminal(r)

\* the store holds a resolved ticket and an open one
C1_Witness ==
    /\ \E k \in 1..Len(db.tickets) : Terminal(db.tickets[k])
    /\ \E k \in 1..Len(db.tickets) : ~Terminal(db.tickets[k])

\* x is num/den to the nearest hundredth, and 0 when den = 0
IsRounded(x, num, den) ==
    IF den = 0 THEN Hundredths(x) = 0
    ELSE 2 * Abs(Hundredths(x) * den - 100 * num) <= den
\* x is num/den exactly
IsExact(x, num, den) == den > 0 => Hundredths(x) * den = 100 * num

\* the parts of C2 that count rows
C2_Counts(m, df) ==
    /\ m.total_tickets = IntVal(Len(df))
    /\ m.tickets_resueltos = IntVal(Cardinality({k \in 1..Len(df) : Terminal(df[k])}))
    /\ m.tickets_abiertos.v = m.total_tickets.v - m.tickets_resueltos.v

\* the ratios and means of C2, each compared by Is (IsExact or IsRounded)
C2_Ratios(m, df, Is(_, _, _)) ==
    LET R == {k \in 1..Len(df) : Terminal(df[k])}
        T == {k \in 1..Len(df) : IsPresent(df[k].tiempo_resolucion_horas)}
        S == {k \in 1..Len(df) : IsPresent(df[k].satisfaccion_cliente)}
        E == {k \in T : Val(df[k].tiempo_resolucion_horas) <= 24}
    IN  /\ Is(m.tasa_resolucion, 100 * Cardinality(R), Len(df))
        /\ Is(m.sla_24h, 100 * Cardinality(E), Cardinality(T))
        /\ Is(m.tiempo_promedio_resolucion_horas,
              SumOver(Len(df), T, LAMBDA k : Val(df[k].tiempo_resolucion_horas)),
              Cardinality(T))
        /\ Is(m.satisfaccion_promedio,
              SumOver(Len(df), S, LAMBDA k : Val(df[k].satisfaccion_cliente)),
              Cardinality(S))

C3_EmptyTableAllZero ==
    (last.op = "calculate_metrics" /\ conn = "open" /\ TableExists
        /\ Len(db.tickets) = 0) =>
        /\ last.err = "none"
        /\ \A f \in {"total_tickets", "tasa_resolucion",
                      "tiempo_promedio_resolucion_horas",
                      "satisfaccion_promedio", "sla_24h"} :
              Hundredths(metrics[f]) = 0
        /\ \A f \in GroupFields : DOMAIN metrics[f] = {}

\* calculate_metrics has run on the empty table
C3_Witness ==
    /\ last.op = "calculate_metrics"
    /\ conn = "open"
    /\ TableExists
    /\ Len(db.tickets) = 0
    /\ metrics # EmptyDict

\* C4: tasa_resolucion and sla_24h of every snapshot lie in [0, 100].
C4_RatesWithinPercentRange ==
    metrics # EmptyDict =>
        /\ 0 <= Hundredths(metrics.tasa_resolucion)
        /\ Hundredths(metrics.tasa_resolucion) <= 10000
        /\ 0 <= Hundredths(metrics.sla_24h)
        /\ Hundredths(metrics.sla_24h) <= 10000

\* a snapshot with tasa_resolucion strictly inside the range and sla_24h
\* at its upper end
C4_Witness ==
    /\ metrics # EmptyDict
    /\ 0 < Hundredths(metrics.tasa_resolucion)
    /\ Hundredths(metrics.tasa_resolucion) < 10000
    /\ Hundredths(metrics.sla_24h) = 10000

TicketIds(d) == {d.tickets[k].ticket_id : k \in 1..Len(d.tickets)}

\* C5: a call of insert_sample_tickets on a connected analyzer whose table
\* exists raises nothing, leaves every row already stored as it is, and
\* leaves exactly one row per ticket_id 1 .. max(n, rows before), n the
\* argument of the call.
C5_DuplicateSafeInsert ==
    [][(last'.op = "insert_sample_tickets" /\ conn = "open" /\ TableExists) =>
          /\ last'.err = "none"
          /\ Len(db'.tickets) >= Len(db.tickets)
          /\ \A k \in 1..Len(db.tickets) : db'.tickets[k] = db.tickets[k]
          /\ TicketIds(db') = 1..Len(db'.tickets)
          /\ Len(db'.tickets) = Max(last'.args[1], Len(db.tickets))]_vars

\* rows of two calls made at different times: the later call, with the
\* larger n, has bound a different row to the ticket_id of the earlier one
C5_Witness ==
    \E j, k \in 1..Len(db.tickets) :
        /\ j < k
        /\ db.tickets[j].fecha_creacion - DiaAt(j - 1)
              # db.tickets[k].fecha_creacion - DiaAt(k - 1)
        /\ last.op = "insert_sample_tickets"

\* C6: the metrics object of the exported document, parsed back, equals
\* self.metrics field by field.
C6_ExportedMetricsRoundTrip ==
    Returned("export_for_powerbi") =>
        DictEq(JsonParseMetrics(Val(file).metrics), metrics)

\* an export of a snapshot holding a float with two decimals
C6_Witness ==
    /\ Returned("export_for_powerbi")
    /\ metrics # EmptyDict
    /\ metrics.tasa_resolucion.t = "float"
    /\ metrics.tasa_resolucion.v % 10 # 0
    /\ DOMAIN metrics.tickets_por_categoria # {}

\* C7: when a run of main ends, the connection connect_db opened is
\* closed, whether the run ended normally or with an exception of one of
\* its steps; an exception stops the try block at once and leaves main().
C7_ConnectionClosedOnEveryExit ==
    /\ pc \in {"done", "raised"} => conn # "open"
    /\ (pc \in {"done", "raised"} /\ \E k \in 1..Len(log) : log[k].op = "connect_db")
          => conn = "closed"
    /\ exc # "none" => pc \in {"finally", "raised"}
    /\ pc = "raised" => exc # "none"
    /\ pc = "done" => exc = "none" /\ Len(log) = 8

\* a run that failed after the tickets were inserted has ended with the
\* exception raised and the connection closed
C7_Witness ==
    /\ pc = "raised"
    /\ exc = "StorageError"
    /\ conn = "closed"
    /\ Len(log) >= 3

ExpectedCalls ==
    <<[op |-> "connect_db", args |-> <<>>],
      [op |-> "create_tables", args |-> <<>>],
      [op |-> "insert_sample_tickets", args |-> <<200>>],
      [op |-> "calculate_metrics", args |-> <<>>],
      [op |-> "generate_sql_report", args |-> <<>>],
      [op |-> "get_summary_report", args |-> <<>>],
      [op |-> "export_for_powerbi", args |-> <<>>],
      [op |-> "print_agentes", args |-> <<>>]>>

\* C8: the statements a run of main has completed are a prefix of: schema
\* creation, generation of 200 tickets, metrics, (SQL reports,) summary,
\* export; the summary printed and the document exported carry the
\* computed snapshot, never the empty one.
C8_MainStepsInOrder ==
    /\ Len(log) <= Len(ExpectedCalls)
    /\ \A k \in 1..Len(log) : log[k] = ExpectedCalls[k]
    /\ pc = "done" => log = ExpectedCalls
    /\ Len(log) >= 3 => Len(db.tickets) = 200
    /\ Len(log) >= 4 => metrics # EmptyDict
    /\ stdout # <<>> =>
          /\ stdout[1].kind = "reporte"
          /\ stdout[1].total_tickets = Str(metrics.total_tickets)
    /\ Len(log) >= 7 => Val(file).metrics = JsonMetrics(metrics)

\* a run of main has completed every statement
C8_Witness ==
    /\ pc = "done"
    /\ Len(log) = 8
    /\ Len(stdout) = 2
    /\ metrics.total_tickets.v = 200

\* C9: the weekly trend has at most 8 rows, one per week key of the
\* store, strictly descending; they are the 8 most recent weeks (all of
\* them when there are fewer); tickets_creados counts the tickets created
\* in the week and tickets_resueltos those of them resolved or closed.
C9_WeeklyTrend ==
    sql_reports # <<>> =>
        LET t == sql_reports.tendencia_semanal
            df == db.tickets
            W == {WeekKey(df[k].fecha_creacion) : k \in 1..Len(df)}
            K == {t[i].semana : i \in 1..Len(t)}
            In == {df[k].fecha_creacion : k \in {j \in 1..Len(df) :
                      WeekKey(df[j].fecha_creacion) \in K}}
            Out == {df[k].fecha_creacion : k \in {j \in 1..Len(df) :
                      WeekKey(df[j].fecha_creacion) \notin K}}
        IN  /\ Len(t) <= 8
            /\ Len(t) = (IF Cardinality(W) < 8 THEN Cardinality(W) ELSE 8)
            /\ K \subseteq W
            /\ \A i, j \in 1..Len(t) : i < j => KeyLess(t[j].semana, t[i].semana)
            /\ \A i, j \in 1..Len(t) : i < j =>
                  \A a, b \in In :
                      (WeekKey(a) = t[j].semana /\ WeekKey(b) = t[i].semana) => a < b
            /\ \A a \in Out, b \in In : a < b
            /\ \A i \in 1..Len(t) :
                  /\ t[i].tickets_creados =
                        Cardinality({k \in 1..Len(df) :
                                       WeekKey(df[k].fecha_creacion) = t[i].semana})
                  /\ t[i].tickets_resueltos =
                        Cardinality({k \in 1..Len(df) :
                                       /\ WeekKey(df[k].fecha_creacion) = t[i].semana
                                       /\ Terminal(df[k])})
                  /\ t[i].tickets_resueltos <= t[i].tickets_creados

\* a trend cut to 8 rows out of more weeks, across a change of year
C9_Witness ==
    /\ sql_reports # <<>>
    /\ Len(sql_reports.tendencia_semanal) = 8
    /\ Cardinality({WeekKey(db.tickets[k].fecha_creacion) :
                       k \in 1..Len(db.tickets)}) > 8
    /\ sql_reports.tendencia_semanal[1].semana[1]
          # sql_reports.tendencia_semanal[8].semana[1]

FullSchema ==
    ("tickets" :> TicketColumns) @@ ("metricas_diarias" :> MetricasColumns)

C11_ExportedMetricsDescribeExportedTickets ==
    Returned("export_for_powerbi") =>
        LET doc == Val(file)
        IN  /\ "total_tickets" \in DOMAIN doc.metrics
            /\ doc.metrics.total_tickets = doc.summary.total_tickets
            /\ TextValue(doc.summary.total_tickets)
                  = Cardinality(DOMAIN doc.tickets)

====
